---- MODULE Spec2Model ----
(***************************************************************************)
(* A model of src/parse.ts: the parser-combinator library and the XML-like *)
(* grammar built from it.                                                  *)
(*                                                                         *)
(* Representation.  A JavaScript string is a sequence of one-character     *)
(* strings (<<"<", "a", "/", ">">> is '<a/>').  A parser, which the source *)
(* represents as a closure, is a record naming the function that built it  *)
(* and the values the closure captured; Run applies such a record to an    *)
(* input, executing the body of the closure.  For a function f of the      *)
(* source that returns a closure, the operator f builds the record and     *)
(* f_call is the body of the returned function. The mapper, predicate and  *)
(* continuation arrow functions of the source are records too, applied by  *)
(* CallMapper, CallPredicate and CallContinuation.                         *)
(*                                                                         *)
(* XElement objects live in a heap, a sequence of nodes addressed by their *)
(* index; an element value is such an index.  The field `assigned' of a    *)
(* node is a history field: it counts the assignments `el.children = x'    *)
(* performed on the node after its construction.                           *)
(*                                                                         *)
(* A parse outcome has kind "ok" (the source's [Result]), "err" (the       *)
(* source's [undefined, Err]) or "loop": the call never returns, because a *)
(* `while (true)' loop of oneOrMore / zeroOrMore runs a body that succeeds *)
(* without consuming anything and so succeeds again forever.               *)
(***************************************************************************)
EXTENDS Integers, Sequences, FiniteSets, TLC

----------------------------------------------------------------------------
(* Strings *)

\* String.prototype.substring(a, b): both indices are clamped to
\* 0..length and swapped when a > b.
Clamp(n, len) == IF n < 0 THEN 0 ELSE IF n > len THEN len ELSE n

substring(s, a, b) ==
    LET ca == Clamp(a, Len(s))
        cb == Clamp(b, Len(s))
        start == IF ca <= cb THEN ca ELSE cb
        end == IF ca <= cb THEN cb ELSE ca
    IN SubSeq(s, start + 1, end)

\* String.prototype.startsWith(expected)
startsWith(s, expected) ==
    /\ Len(expected) <= Len(s)
    /\ SubSeq(s, 1, Len(expected)) = expected

\* String.prototype.charCodeAt for the characters of the model's alphabet.
charCodeAt(c) ==
    CASE c = "\n" -> 10
      [] c = " " -> 32
      [] c = "\"" -> 34
      [] c = "-" -> 45
      [] c = "/" -> 47
      [] c = "1" -> 49
      [] c = "<" -> 60
      [] c = "=" -> 61
      [] c = ">" -> 62
      [] c = "A" -> 65
      [] c = "\\" -> 92
      [] c = "_" -> 95
      [] c = "a" -> 97
      [] c = "k" -> 107

\* Array.prototype.join(""): the strings xs[lo..hi] of a list, concatenated
\* (halving the range keeps the recursion shallow on long lists).
RECURSIVE JoinRange(_, _, _)
JoinRange(xs, lo, hi) ==
    IF lo > hi THEN <<>>
    ELSE IF lo = hi THEN xs[lo]
    ELSE LET mid == (lo + hi) \div 2
         IN JoinRange(xs, lo, mid) \o JoinRange(xs, mid + 1, hi)

Concat(xs) == JoinRange(xs, 1, Len(xs))

\* The escaping JSON.stringify applies to one character of a string value.
JsonEscapeChar(c) ==
    CASE c = "\"" -> <<"\\", "\"">>
      [] c = "\\" -> <<"\\", "\\">>
      [] c = "\n" -> <<"\\", "n">>
      [] OTHER -> <<c>>

\* JSON.stringify({ error: e }) = {"error":"<e, escaped>"}
JsonStringifyErr(e) ==
    <<"{", "\"", "e", "r", "r", "o", "r", "\"", ":", "\"">>
        \o Concat([i \in 1..Len(e) |-> JsonEscapeChar(e[i])])
        \o <<"\"", "}">>

\* `bad: ${JSON.stringify(err)}` as text, for the error text t.
BadText(t) == <<"b", "a", "d", ":", " ">> \o JsonStringifyErr(t)

\* An Err object.  Every error message of the source is either a message
\* msg built from the input and a literal (by anyChar, matchLiteral,
\* oneOrMore or pred), or `bad: ${JSON.stringify(err)}' for an earlier Err
\* object err.  The text of the second kind doubles its backslashes each time
\* it is wrapped again, so an Err is kept as the message at its core and the
\* number of times it was wrapped; ErrorText gives its characters.  (No
\* message at the core begins with `bad: {': the alphabet of the inputs has
\* no b.  So two Err values are equal exactly when their texts are.)
PlainError(msg) == [wraps |-> 0, msg |-> msg]

BadError(err) == [wraps |-> err.wraps + 1, msg |-> err.msg]

RECURSIVE WrapText(_, _)
WrapText(t, n) == IF n = 0 THEN t ELSE WrapText(BadText(t), n - 1)

ErrorText(err) == WrapText(err.msg, err.wraps)

----------------------------------------------------------------------------
(* Parse outcomes *)

NoError == PlainError(<<>>)

\* ok is TRUE exactly when kind is "ok": the test `res[0] !== undefined'.
Success(nextInput, result, h) ==
    [ok |-> TRUE, kind |-> "ok", nextInput |-> nextInput, result |-> result,
     error |-> NoError, heap |-> h]

Failure(error, h) ==
    [ok |-> FALSE, kind |-> "err", nextInput |-> <<>>, result |-> <<>>,
     error |-> error, heap |-> h]

Diverge(h) ==
    [ok |-> FALSE, kind |-> "loop", nextInput |-> <<>>, result |-> <<>>,
     error |-> NoError, heap |-> h]

----------------------------------------------------------------------------
(* The heap of XElement objects *)

\* A faulty constructor, which hands out again an object that already has
\* the name and the attributes asked for.
NewXElement_shared(name, attributes, h) ==
    LET same == {i \in 1..Len(h) :
                   h[i].name = name /\ h[i].attributes = attributes}
    IN IF same = {}
       THEN [val |-> Len(h) + 1,
             heap |-> Append(h, [name |-> name, attributes |-> attributes,
                                 children |-> <<>>, assigned |-> 0])]
       ELSE [val |-> CHOOSE i \in same : \A j \in same : i <= j, heap |-> h]

\* new XElement(name, attributes): children starts as [].
NewXElement(name, attributes, h) ==
    [val |-> Len(h) + 1,
     heap |-> Append(h, [name |-> name, attributes |-> attributes,
                         children |-> <<>>, assigned |-> 0])]

\* el.children = x
AssignChildren(el, x, h) ==
    [val |-> el,
     heap |-> [h EXCEPT ![el].children = x,
                        ![el].assigned = h[el].assigned + 1]]

RECURSIVE Run(_, _, _)
RECURSIVE CallContinuation(_, _, _)

----------------------------------------------------------------------------
(* Arrow functions of the source, as values *)

FirstOf == [fn |-> "first"]            \* (r) => r[0]          in left
SecondOf == [fn |-> "second"]          \* (r) => r[1]          in right
JoinChars == [fn |-> "join"]           \* x => x.join("")      in quotedString
MakeElement == [fn |-> "newXElement"]  \* f in openElement / singleElement
SetChildren(el) == [fn |-> "setChildren", el |-> el]  \* in parentElement
AppendMapStuff == [fn |-> "mapStuff"]  \* input => input + " map stuff"

NotQuote == [fn |-> "notQuote"]        \* x => x != "\""
IsWhitespace == [fn |-> "isWhitespace"]
EqualsName(expectedName) == [fn |-> "equalsName", expectedName |-> expectedName]
IsLetterA == [fn |-> "isA"]            \* x => x == 'o' of TestPred, on 'a'

ParentBody == [fn |-> "parentBody"]    \* el => ...            in parentElement

CallMapper(f, x, h) ==
    CASE f.fn = "first" -> [val |-> x[1], heap |-> h]
      [] f.fn = "second" -> [val |-> x[2], heap |-> h]
      [] f.fn = "join" -> [val |-> Concat(x), heap |-> h]
      [] f.fn = "newXElement" -> NewXElement(x[1], x[2], h)
      [] f.fn = "setChildren" -> AssignChildren(f.el, x, h)
      [] f.fn = "mapStuff" ->
            [val |-> x \o <<" ", "m", "a", "p", " ", "s", "t", "u", "f", "f">>,
             heap |-> h]

CallPredicate(f, x) ==
    CASE f.fn = "notQuote" -> x # <<"\"">>
      [] f.fn = "isWhitespace" -> x[1] = " " \/ x[1] = "\n"
      [] f.fn = "equalsName" -> x = f.expectedName
      [] f.fn = "isA" -> x = <<"a">>

----------------------------------------------------------------------------
(* Combinator layer *)

map(parser, map_fn) == [op |-> "map", parser |-> parser, map_fn |-> map_fn]

\* A faulty map, which returns the failure of its parser as it is.
map_forward(parser, map_fn, input, h) ==
    LET res == Run(parser, input, h) IN
    IF res.ok
    THEN LET m == CallMapper(map_fn, res.result, res.heap)
         IN Success(res.nextInput, m.val, m.heap)
    ELSE res

map_call(parser, map_fn, input, h) ==
    LET res == Run(parser, input, h) IN
    IF res.ok
    THEN LET m == CallMapper(map_fn, res.result, res.heap)
         IN Success(res.nextInput, m.val, m.heap)
    ELSE IF res.kind = "loop" THEN res
    ELSE Failure(BadError(res.error), res.heap)

pair(parser1, parser2) == [op |-> "pair", parser1 |-> parser1, parser2 |-> parser2]

pair_call(parser1, parser2, input, h) ==
    LET result1 == Run(parser1, input, h)
        result2 == Run(parser2, result1.nextInput, result1.heap)
    IN
    IF result1.ok
    THEN IF result2.ok
         THEN Success(result2.nextInput, <<result1.result, result2.result>>,
                      result2.heap)
         ELSE IF result2.kind = "loop" THEN result2
         ELSE Failure(BadError(result2.error), result2.heap)
    ELSE IF result1.kind = "loop" THEN result1
    ELSE Failure(BadError(result1.error), result1.heap)

left(parser1, parser2) == map(pair(parser1, parser2), FirstOf)

right(parser1, parser2) == map(pair(parser1, parser2), SecondOf)

\* The `while (true)' loop shared by oneOrMore and zeroOrMore, entered with
\* the cursor nextInput and the results collected so far.  An iteration
\* whose parse succeeds on nextInput and returns nextInput again is repeated
\* forever (the parse of a cursor depends on nothing but the cursor).
RECURSIVE RepeatLoop(_, _, _, _)
RepeatLoop(parser, nextInput, results, h) ==
    LET result == Run(parser, nextInput, h) IN
    IF result.ok
    THEN IF result.nextInput = nextInput
         THEN Diverge(result.heap)
         ELSE RepeatLoop(parser, result.nextInput,
                         Append(results, result.result), result.heap)
    ELSE IF result.kind = "loop" THEN result
    ELSE Success(nextInput, results, result.heap)

oneOrMore(parser) == [op |-> "oneOrMore", parser |-> parser]

\* A faulty oneOrMore, which does not ask for a first match.
oneOrMore_lenient(parser, input, h) == RepeatLoop(parser, input, <<>>, h)

oneOrMore_call(parser, input, h) ==
    LET result == Run(parser, input, h) IN
    IF result.ok
    THEN RepeatLoop(parser, result.nextInput, <<result.result>>, result.heap)
    ELSE IF result.kind = "loop" THEN result
    ELSE Failure(PlainError(<<"'">> \o input
                              \o <<"'", " ", "n", "o", "t", " ",
                                   "m", "a", "t", "c", "h", "e", "d">>),
                 result.heap)

zeroOrMore(parser) == [op |-> "zeroOrMore", parser |-> parser]

\* A faulty zeroOrMore, which never applies its parser.
zeroOrMore_none(parser, input, h) == Success(input, <<>>, h)

zeroOrMore_call(parser, input, h) == RepeatLoop(parser, input, <<>>, h)

pred(parser, predicate) == [op |-> "pred", parser |-> parser, predicate |-> predicate]

pred_call(parser, predicate, input, h) ==
    LET result == Run(parser, input, h) IN
    IF result.ok
    THEN IF CallPredicate(predicate, result.result)
         THEN Success(result.nextInput, result.result, result.heap)
         ELSE Failure(PlainError(input), result.heap)
    ELSE IF result.kind = "loop" THEN result
    ELSE Failure(BadError(result.error), result.heap)

andThen(parser, f) == [op |-> "andThen", parser |-> parser, f |-> f]

andThen_call(parser, f, input, h) ==
    LET result1 == Run(parser, input, h) IN
    IF result1.ok
    THEN Run(CallContinuation(f, result1.result, result1.heap),
             result1.nextInput, result1.heap)
    ELSE IF result1.kind = "loop" THEN result1
    ELSE Failure(result1.error, result1.heap)

either(parser1, parser2) == [op |-> "either", parser1 |-> parser1, parser2 |-> parser2]

\* A faulty either, which fails with the error of parser1 when both fail.
either_keepFirst(parser1, parser2, input, h) ==
    LET result1 == Run(parser1, input, h)
        result2 == Run(parser2, input, result1.heap)
    IN IF result1.kind = "err"
       THEN IF result2.kind = "err" THEN Failure(result1.error, result2.heap)
            ELSE result2
       ELSE result1

either_call(parser1, parser2, input, h) ==
    LET result1 == Run(parser1, input, h) IN
    IF result1.kind = "err" THEN Run(parser2, input, result1.heap)
    ELSE result1

----------------------------------------------------------------------------
(* Primitive parsers *)

anyCharP == [op |-> "anyChar"]

\* A faulty anyChar, which leaves the cursor where it was.
anyChar_stay(input, h) ==
    IF Len(input) > 0
    THEN Success(input, <<input[1]>>, h)
    ELSE Failure(PlainError(input), h)

anyChar(input, h) ==
    IF Len(input) > 0
    THEN Success(substring(input, 1, Len(input)), <<input[1]>>, h)
    ELSE Failure(PlainError(input), h)

matchLiteral(expected) == [op |-> "matchLiteral", expected |-> expected]

\* A faulty matchLiteral, which cuts the literal's length off the end of s.
matchLiteral_dropTail(expected, s, h) ==
    IF startsWith(s, expected)
    THEN Success(substring(s, 0, Len(s) - Len(expected)), <<>>, h)
    ELSE Failure(PlainError(<<"n", "o", " ", "m", "a", "t", "c", "h", " ",
                              "f", "o", "r", ":", " ", "'">> \o expected
                              \o <<"'", " ", "i", "n", ":", " ">> \o s), h)

matchLiteral_call(expected, s, h) ==
    IF startsWith(s, expected)
    THEN Success(substring(s, Len(expected), Len(s)), <<>>, h)
    ELSE Failure(PlainError(<<"n", "o", " ", "m", "a", "t", "c", "h", " ",
                              "f", "o", "r", ":", " ", "'">> \o expected
                              \o <<"'", " ", "i", "n", ":", " ">> \o s), h)

\* A faulty isAlpha, with one range from A to z.
isAlpha_wide(s) ==
    \A i \in 1..Len(s) :
        LET code == charCodeAt(s[i]) IN code > 64 /\ code < 123

isAlpha(s) ==
    \A i \in 1..Len(s) :
        LET code == charCodeAt(s[i]) IN
        ~ ( ~(code > 64 /\ code < 91) /\ ~(code > 96 /\ code < 123) )

\* The for-of loop of identifier: the characters matched from position i on.
RECURSIVE IdentifierScan(_, _, _)
IdentifierScan(input, i, matched) ==
    IF i > Len(input) THEN matched
    ELSE IF isAlpha(<<input[i]>>) \/ input[i] = "-"
         THEN IdentifierScan(input, i + 1, matched \o <<input[i]>>)
    ELSE matched

identifierP == [op |-> "identifier"]

identifier(input, h) ==
    LET matched == IdentifierScan(input, 1, <<>>)
    IN Success(substring(input, Len(input), Len(matched)), matched, h)

----------------------------------------------------------------------------
(* Grammar layer *)

quotedString ==
    map(right(matchLiteral(<<"\"">>),
              left(zeroOrMore(pred(anyCharP, NotQuote)), matchLiteral(<<"\"">>))),
        JoinChars)

whitespaceChar == pred(anyCharP, IsWhitespace)

space0 == zeroOrMore(whitespaceChar)

space1 == oneOrMore(whitespaceChar)

attributePair == pair(identifierP, right(matchLiteral(<<"=">>), quotedString))

attributes == zeroOrMore(right(space1, attributePair))

elementStart == right(matchLiteral(<<"<">>), pair(identifierP, attributes))

openElement == map(left(elementStart, matchLiteral(<<">">>)), MakeElement)

singleElement == map(left(elementStart, matchLiteral(<<"/", ">">>)), MakeElement)

\* A faulty closeElement, which accepts any closing name.
closeElement_any(expectedName) ==
    right(matchLiteral(<<"<", "/">>), left(identifierP, matchLiteral(<<">">>)))

closeElement(expectedName) ==
    pred(right(matchLiteral(<<"<", "/">>), left(identifierP, matchLiteral(<<">">>))),
         EqualsName(expectedName))

parentElement == andThen(openElement, ParentBody)

whitespaceWrap(parser) == right(space0, left(parser, space0))

element == whitespaceWrap(either(singleElement, parentElement))

CallContinuation(f, x, h) ==
    CASE f.fn = "parentBody" ->
            map(left(zeroOrMore(element), closeElement(h[x].name)), SetChildren(x))
      [] f.fn = "closeElement" -> closeElement(x)

Run(p, input, h) ==
    CASE p.op = "map" -> map_call(p.parser, p.map_fn, input, h)
      [] p.op = "pair" -> pair_call(p.parser1, p.parser2, input, h)
      [] p.op = "oneOrMore" -> oneOrMore_call(p.parser, input, h)
      [] p.op = "zeroOrMore" -> zeroOrMore_call(p.parser, input, h)
      [] p.op = "pred" -> pred_call(p.parser, p.predicate, input, h)
      [] p.op = "andThen" -> andThen_call(p.parser, p.f, input, h)
      [] p.op = "either" -> either_call(p.parser1, p.parser2, input, h)
      [] p.op = "anyChar" -> anyChar(input, h)
      [] p.op = "matchLiteral" -> matchLiteral_call(p.expected, input, h)
      [] p.op = "identifier" -> identifier(input, h)

----------------------------------------------------------------------------
(* Element trees: the value an element index denotes in a heap *)

RECURSIVE Tree(_, _)
Tree(h, el) ==
    [name |-> h[el].name,
     attributes |-> h[el].attributes,
     children |-> [i \in 1..Len(h[el].children) |-> Tree(h, h[el].children[i])]]

\* The nodes reachable from el, el included.
RECURSIVE Nodes(_, _)
Nodes(h, el) ==
    {el} \cup UNION {Nodes(h, h[el].children[i]) : i \in 1..Len(h[el].children)}

----------------------------------------------------------------------------
(* Bounds and inputs *)

MaxLen == 3
MaxNodes == 4
MaxTokens == 4
MaxCalls == 3

\* The characters of the generated strings: each delimiter of the grammar, a
\* lower-case and an upper-case letter, the hyphen, and the underscore, whose
\* code lies between the two letter ranges.  The examples add = 1 and \n.
Alphabet == {"<", ">", "/", "\"", " ", "a", "A", "-", "_"}

\* Every string of at most n characters.
StringsUpTo(n) == UNION {[1..k -> Alphabet] : k \in 0..n}

Examples ==
    { <<"a", "-", "A", " ", "a", "1">>,                        \* abc-def asdf
      <<"a", "_", "a", "A">>,
      <<"\"", "a", " ", "1", "\"">>,                           \* "hello"
      <<"k", "=", "\"", "1", "\"">>,                           \* one="1"
      <<" ", "k", "=", "\"", "1", "\"", " ", "a", "=", "\"", "-", "\"">>,
      <<"<", "a", " ", "k", "=", "\"", "1", "\"", "/", ">">>,  \* <div class="float"/>
      <<"<", "a", ">", "<", "/", "a", ">">>,
      <<"<", "a", ">", "<", "/", "A", ">">>,
      <<"a", "a", "a", "a", "<">>,                             \* hahaha
      <<"\n", "<", "a", " ", "k", "=", "\"", "1", "\"", ">", "\n",
        "<", "A", "-", "/", ">", " ", "<", "a", ">", "<", "A", "/", ">",
        "<", "/", "a", ">", "\n", "<", "/", "a", ">", "\n", "1">> }

Texts == StringsUpTo(MaxLen) \cup Examples

VARIABLES
    text,      \* the input string of the call
    source,    \* the element tree text was rendered from, or NoTree
    heap,      \* the XElement objects created so far
    pc,        \* "ready" before the call, "done" after it
    last,      \* the parser applied and the outcome of the call
    returned   \* the invocations of element() made so far, oldest first

vars == <<text, source, heap, pc, last, returned>>

NoTree == [name |-> <<"1">>, attributes |-> <<>>, children |-> <<>>]

\* One call parser(text): the whole call, its effect on the heap included.
Call(parser) ==
    /\ LET out == Run(parser, text, heap) IN
        /\ last' = [parser |-> parser, before |-> heap, out |-> out]
        /\ heap' = out.heap
    /\ pc' = "done"
    /\ UNCHANGED <<text, source, returned>>

----------------------------------------------------------------------------
(* The combinators and the parsers applied to arbitrary short strings *)

Literals == {<<"a">>, <<"/", ">">>, <<>>}

\* Parsers of strings the combinators are applied to.
Pool == {anyCharP, identifierP, matchLiteral(<<"a">>), whitespaceChar, quotedString}

PoolPairs ==
    { <<anyCharP, identifierP>>, <<identifierP, anyCharP>>,
      <<matchLiteral(<<"a">>), whitespaceChar>>, <<whitespaceChar, anyCharP>>,
      <<quotedString, identifierP>> }

Names == {<<>>, <<"a">>, <<"A">>}

CloseElementFn == [fn |-> "closeElement"]

InitComb ==
    /\ text \in Texts
    /\ source = NoTree
    /\ heap = <<>>
    /\ pc = "ready"
    /\ last = [parser |-> anyCharP, before |-> <<>>, out |-> Diverge(<<>>)]
    /\ returned = <<>>

CallAnyChar ==
    /\ pc = "ready"
    /\ Call(anyCharP)

CallMatchLiteral ==
    /\ pc = "ready"
    /\ \E lit \in Literals : Call(matchLiteral(lit))

CallIdentifier ==
    /\ pc = "ready"
    /\ Call(identifierP)

CallMap ==
    /\ pc = "ready"
    /\ \E p \in Pool : Call(map(p, AppendMapStuff))

CallPair ==
    /\ pc = "ready"
    /\ \E pp \in PoolPairs : Call(pair(pp[1], pp[2]))

CallLeft ==
    /\ pc = "ready"
    /\ \E pp \in PoolPairs : Call(left(pp[1], pp[2]))

CallRight ==
    /\ pc = "ready"
    /\ \E pp \in PoolPairs : Call(right(pp[1], pp[2]))

CallOneOrMore ==
    /\ pc = "ready"
    /\ \E p \in Pool : Call(oneOrMore(p))

CallZeroOrMore ==
    /\ pc = "ready"
    /\ \E p \in Pool : Call(zeroOrMore(p))

CallPred ==
    /\ pc = "ready"
    /\ \E p \in Pool \ {quotedString}, f \in {IsLetterA, NotQuote} : Call(pred(p, f))

CallAndThen ==
    /\ pc = "ready"
    /\ \E p \in {identifierP, anyCharP, whitespaceChar} : Call(andThen(p, CloseElementFn))

CallEither ==
    /\ pc = "ready"
    /\ \E pp \in PoolPairs : Call(either(pp[1], pp[2]))

CallEitherElement ==
    /\ pc = "ready"
    /\ \E pp \in {<<singleElement, parentElement>>, <<parentElement, singleElement>>,
       <<parentElement, element>>, <<parentElement, openElement>>} : Call(either(pp[1], pp[2]))

CallQuotedString ==
    /\ pc = "ready"
    /\ Call(quotedString)

CallSpace ==
    /\ pc = "ready"
    /\ \E p \in {whitespaceChar, space0, space1} : Call(p)

CallAttributePair ==
    /\ pc = "ready"
    /\ Call(attributePair)

CallAttributes ==
    /\ pc = "ready"
    /\ Call(attributes)

CallElementStart ==
    /\ pc = "ready"
    /\ Call(elementStart)

CallOpenElement ==
    /\ pc = "ready"
    /\ Call(openElement)

CallSingleElement ==
    /\ pc = "ready"
    /\ Call(singleElement)

CallCloseElement ==
    /\ pc = "ready"
    /\ \E n \in {<<>>, <<"a">>} : Call(closeElement(n))

CallParentElement ==
    /\ pc = "ready"
    /\ Call(parentElement)

CallElement ==
    /\ pc = "ready"
    /\ Call(element)

NextComb ==
    \/ CallAnyChar
    \/ CallMatchLiteral
    \/ CallIdentifier
    \/ CallMap
    \/ CallPair
    \/ CallLeft
    \/ CallRight
    \/ CallOneOrMore
    \/ CallZeroOrMore
    \/ CallPred
    \/ CallAndThen
    \/ CallEither
    \/ CallEitherElement
    \/ CallQuotedString
    \/ CallSpace
    \/ CallAttributePair
    \/ CallAttributes
    \/ CallElementStart
    \/ CallOpenElement
    \/ CallSingleElement
    \/ CallCloseElement
    \/ CallParentElement
    \/ CallElement

SpecComb == InitComb /\ [][NextComb]_vars

----------------------------------------------------------------------------
(* The grammar applied to documents *)

\* The name and the attribute pairs a node of a generated tree may have.
Kinds ==
    { [name |-> <<"a">>, attributes |-> <<>>],
      [name |-> <<"A", "-">>,
       attributes |-> << <<<<"k">>, <<"/", ">">>>>, <<<<"-">>, <<>>>> >>],
      [name |-> <<>>, attributes |-> <<>>] }

PlainKinds == {k \in Kinds : k.attributes = <<>>}

\* The element trees of exactly n nodes and at most d levels below the root
\* whose nodes are of the kinds ks, and the sequences of such trees that
\* have n nodes in all.
RECURSIVE TreesOfSize(_, _, _)
RECURSIVE ForestsOfSize(_, _, _)
TreesOfSize(n, d, ks) ==
    IF n = 0 THEN {}
    ELSE {[name |-> k.name, attributes |-> k.attributes, children |-> f] :
            k \in ks,
            f \in IF d = 0 THEN (IF n = 1 THEN {<<>>} ELSE {})
                           ELSE ForestsOfSize(n - 1, d - 1, ks)}

ForestsOfSize(n, d, ks) ==
    IF n = 0 THEN {<<>>}
    ELSE UNION {{<<t>> \o f : t \in TreesOfSize(j, d, ks),
                              f \in ForestsOfSize(n - j, d, ks)} : j \in 1..n}

\* The generated trees, of at most MaxNodes nodes: an element and its
\* children, of any kind; and an element, its children and their children,
\* without attributes.
Trees ==
    UNION {TreesOfSize(n, 1, Kinds) \cup TreesOfSize(n, 2, PlainKinds) :
             n \in 1..MaxNodes}

\* The markup of an attribute list: each pair as ' name="value"'.
RenderAttributes(as) ==
    Concat([i \in 1..Len(as) |->
              <<" ">> \o as[i][1] \o <<"=", "\"">> \o as[i][2] \o <<"\"">>])

\* The markup of a tree: a childless node as <name attrs/>, any other as
\* <name attrs>children</name>; when spaced, a space before and a newline
\* after every element.
RECURSIVE Render(_, _)
Render(t, spaced) ==
    LET open == <<"<">> \o t.name \o RenderAttributes(t.attributes)
        body == IF t.children = <<>>
                THEN open \o <<"/", ">">>
                ELSE open \o <<">">>
                       \o Concat([i \in 1..Len(t.children) |->
                                    Render(t.children[i], spaced)])
                       \o <<"<", "/">> \o t.name \o <<">">>
    IN IF spaced THEN <<" ">> \o body \o <<"\n">> ELSE body

Tokens ==
    { <<"<", "a", ">">>, <<"<", ">">>, <<"<", "/", ">">>,
      <<"<", "/", "a", ">">>, <<"<", "/", "A", ">">>, <<"<", "a", "/", ">">> }

OpeningTokens == {<<"<", "a", ">">>, <<"<", ">">>}

\* The concatenations of at most MaxTokens tags, at most two of them opening
\* tags (so that elements nest on three levels at most).
TokenDocs ==
    {Concat(ts) : ts \in {us \in UNION {[1..k -> Tokens] : k \in 0..MaxTokens} :
                            Cardinality({i \in DOMAIN us : us[i] \in OpeningTokens}) <= 2}}

\* '<a></b>'
TagPair(a, b) == <<"<">> \o a \o <<">", "<", "/">> \o b \o <<">">>

TagDocs == {TagPair(a, b) : a \in Names, b \in Names}

Init ==
    /\ \/ \E t \in Trees, spaced \in BOOLEAN :
             /\ text = Render(t, spaced)
             /\ source = t
       \/ /\ text \in TokenDocs \cup TagDocs \cup Examples
          /\ source = NoTree
    /\ heap = <<>>
    /\ pc = "ready"
    /\ last = [parser |-> anyCharP, before |-> <<>>, out |-> Diverge(<<>>)]
    /\ returned = <<>>

Next ==
    \/ CallSpace
    \/ CallAttributes
    \/ CallSingleElement
    \/ CallParentElement
    \/ CallElement

Spec == Init /\ [][Next]_vars

----------------------------------------------------------------------------
(* Successive invocations of element() *)

CallDocs ==
    { <<"<", "a", "/", ">">>,
      <<"<", "a", ">", "<", "a", "/", ">", "<", "/", "a", ">">>,
      <<"<", "a", ">", "<", "a", ">", "<", "/", "a", ">", "<", "A", "/", ">",
        "<", "/", "a", ">", " ">>,
      <<"<", "a", ">", "<", "a", "/", ">", "<", "/", "A", ">">>,
      <<"<", "A", ">", "<", "/", "A", ">">>,
      <<"<", "a", ">", "<", "a", ">">> }

InitCalls ==
    /\ text = <<>>
    /\ source = NoTree
    /\ heap = <<>>
    /\ pc = "ready"
    /\ last = [parser |-> anyCharP, before |-> <<>>, out |-> Diverge(<<>>)]
    /\ returned = <<>>

\* One more invocation element()(s), on the heap the earlier ones left.  The
\* record added to `returned' keeps what the caller received and, for the
\* claims, the objects the invocation created as they were at its return.
Invoke ==
    /\ Len(returned) < MaxCalls
    /\ \E s \in CallDocs :
        LET out == Run(element, s, heap) IN
        /\ text' = s
        /\ heap' = out.heap
        /\ last' = [parser |-> element, before |-> heap, out |-> out]
        /\ returned' = Append(returned,
                              [input |-> s,
                               kind |-> out.kind,
                               root |-> IF out.kind = "ok" THEN out.result ELSE 0,
                               base |-> Len(heap),
                               top |-> Len(out.heap),
                               created |-> SubSeq(out.heap, Len(heap) + 1,
                                                  Len(out.heap))])
    /\ UNCHANGED <<source, pc>>

NextCalls == Invoke

SpecCalls == InitCalls /\ [][NextCalls]_vars

----------------------------------------------------------------------------
(* What the claims speak of *)

Done == pc = "done"

\* The outcome of parser on the input of the last call, started from the
\* heap the last call started from.
Alone(parser) == Run(parser, text, last.before)

IsSuffix(t, s) == Len(t) <= Len(s) /\ SubSeq(s, Len(s) - Len(t) + 1, Len(s)) = t

ElementParsers == {openElement, singleElement, parentElement, element}

\* Two outcomes a caller cannot tell apart: the same variant, the same
\* cursor and result (the same tree, for a parser of elements) on success,
\* the same error on failure.
SameOutcome(a, b, ofElements) ==
    /\ a.kind = b.kind
    /\ a.kind = "ok" =>
          /\ a.nextInput = b.nextInput
          /\ IF ofElements THEN Tree(a.heap, a.result) = Tree(b.heap, b.result)
                           ELSE a.result = b.result
    /\ a.kind = "err" => a.error = b.error

----------------------------------------------------------------------------
(* C1 *)

ElementCalled == Done /\ last.parser = element

IsSpaceChar(c) == c = " " \/ c = "\n"

\* s without its spaces and newlines.
StripWs(s) == SelectSeq(s, LAMBDA c : ~IsSpaceChar(c))

\* The part of the input the last call consumed.
Consumed == SubSeq(text, 1, Len(text) - Len(last.out.nextInput))

\* The tags of the element el: a node whose children were never assigned
\* (made by singleElement) as <name attrs/>, a node whose children were
\* assigned (made by parentElement) as <name attrs>, its children, </name>.
RECURSIVE Markup(_, _)
Markup(h, el) ==
    LET open == <<"<">> \o h[el].name \o RenderAttributes(h[el].attributes)
    IN IF h[el].assigned = 0
       THEN open \o <<"/", ">">>
       ELSE open \o <<">">>
              \o Concat([i \in 1..Len(h[el].children) |->
                           Markup(h, h[el].children[i])])
              \o <<"<", "/">> \o h[el].name \o <<">">>

\* C1: a mismatched closing tag is never accepted.  element() fails on
\* '<a></b>' for all identifiers a # b, the empty one included; and in every
\* successful parse by element() the text consumed is, spaces and newlines
\* aside, the tags of the tree returned, where each node made from an
\* opening tag '<name ...>' is closed by '</name>' with that same name.
C1_ClosingTagMatches ==
    /\ \A a \in Names, b \in Names :
          ElementCalled /\ a # b /\ text = TagPair(a, b) => last.out.kind = "err"
    /\ ElementCalled /\ last.out.kind = "ok" =>
          StripWs(Consumed) = StripWs(Markup(last.out.heap, last.out.result))

\* element() has failed on '<a></A>'.
C1_Witness ==
    /\ ElementCalled
    /\ text = TagPair(<<"a">>, <<"A">>)
    /\ last.out.kind = "err"

\* element() has parsed an element closed inside an element closed.
C1_WitnessNested ==
    /\ ElementCalled
    /\ last.out.kind = "ok"
    /\ \E n \in 1..Len(heap) :
          /\ heap[n].assigned > 0
          /\ \E i \in 1..Len(heap[n].children) :
                heap[heap[n].children[i]].assigned > 0

----------------------------------------------------------------------------
(* C2 *)

FromTree == ElementCalled /\ source # NoTree

RECURSIVE ParentsAreNamed(_)
ParentsAreNamed(t) ==
    /\ t.children # <<>> => t.name # <<>>
    /\ \A i \in 1..Len(t.children) : ParentsAreNamed(t.children[i])

\* C2: round trip.  Parsing the markup of an element tree with element()
\* succeeds with a tree equal to the original: the same name, the same
\* attribute pairs in the same order, the children equal in the same order.
C2_RoundTrip ==
    FromTree =>
        /\ last.out.kind = "ok"
        /\ Tree(last.out.heap, last.out.result) = source

\* The round trip of C2 for the trees in which every node that has children
\* has a name that is not empty; all of the markup is consumed.
C2_RoundTripNamed ==
    FromTree /\ ParentsAreNamed(source) =>
        /\ last.out.kind = "ok"
        /\ Tree(last.out.heap, last.out.result) = source
        /\ last.out.nextInput = <<>>

\* The markup of a tree on three levels has been parsed.
C2_WitnessNamed ==
    /\ FromTree
    /\ ParentsAreNamed(source)
    /\ \E i \in 1..Len(source.children) : source.children[i].children # <<>>
    /\ last.out.kind = "ok"

\* The markup of a tree whose root has children and no name has been parsed.
C2_EmptyNamedParent ==
    /\ FromTree
    /\ source.name = <<>>
    /\ source.children # <<>>
    /\ last.out.kind = "err"

----------------------------------------------------------------------------
(* C3 *)

EitherCalled == Done /\ last.parser.op = "either"

\* C3: either backtracks fully.  When p1 fails on s, either(p1, p2)(s) is the
\* outcome of p2 on s itself (p2's result and cursor, or p2's error
\* unchanged); when p1 succeeds it is p1's outcome; and either(p1, p2) run
\* again on s, after the first run, yields the same outcome.
C3_EitherBacktracks ==
    EitherCalled =>
        LET p1 == last.parser.parser1
            p2 == last.parser.parser2
            el == p1 \in ElementParsers
            o1 == Alone(p1)
        IN /\ o1.kind = "err" => SameOutcome(last.out, Alone(p2), el)
           /\ o1.kind = "ok" => SameOutcome(last.out, o1, el)
           /\ SameOutcome(Run(last.parser, text, last.out.heap), last.out, el)

\* p1 fails after creating an element and p2 then succeeds.
C3_Witness ==
    /\ EitherCalled
    /\ Alone(last.parser.parser1).kind = "err"
    /\ Len(Alone(last.parser.parser1).heap) > 0
    /\ last.out.kind = "ok"

\* p1 and p2 both fail, with different errors.
C3_WitnessBothFail ==
    /\ EitherCalled
    /\ last.out.kind = "err"
    /\ Alone(last.parser.parser1).error # last.out.error

----------------------------------------------------------------------------
(* C4 *)

\* C4: zeroOrMore(p)(s) never returns a failure, and with no match it
\* succeeds with the empty sequence and the cursor s; oneOrMore(p)(s) returns
\* a failure exactly when p fails on s, and the failure says '<s>' not matched.
C4_Repetition ==
    /\ Done /\ last.parser.op = "zeroOrMore" =>
          /\ last.out.kind # "err"
          /\ Alone(last.parser.parser).kind = "err" =>
                /\ last.out.kind = "ok"
                /\ last.out.result = <<>>
                /\ last.out.nextInput = text
    /\ Done /\ last.parser.op = "oneOrMore" =>
          /\ last.out.kind = "err" <=> Alone(last.parser.parser).kind = "err"
          /\ last.out.kind = "err" =>
                ErrorText(last.out.error) =
                    <<"'">> \o text \o <<"'", " ", "n", "o", "t", " ",
                                         "m", "a", "t", "c", "h", "e", "d">>

\* oneOrMore fails on an input that is not empty.
C4_Witness ==
    /\ Done
    /\ last.parser.op = "oneOrMore"
    /\ last.out.kind = "err"
    /\ Len(text) > 1

----------------------------------------------------------------------------
(* C5 *)

\* The error of the first sub-parser of the last call's combinator to fail:
\* NoError when none fails.
FirstFailure ==
    LET p == last.parser IN
    IF p.op \in {"map", "pred", "andThen"}
    THEN LET o == Alone(p.parser) IN
         IF o.kind = "err" THEN o.error
         ELSE IF p.op = "andThen" /\ o.kind = "ok"
              THEN LET o2 == Run(CallContinuation(p.f, o.result, o.heap),
                                 o.nextInput, o.heap)
                   IN IF o2.kind = "err" THEN o2.error ELSE NoError
         ELSE NoError
    ELSE IF p.op = "pair"
    THEN LET o1 == Alone(p.parser1) IN
         IF o1.kind = "err" THEN o1.error
         ELSE IF o1.kind = "ok"
              THEN LET o2 == Run(p.parser2, o1.nextInput, o1.heap)
                   IN IF o2.kind = "err" THEN o2.error ELSE NoError
         ELSE NoError
    ELSE NoError

SubParserFailed ==
    /\ Done
    /\ last.parser.op \in {"map", "pair", "pred", "andThen"}
    /\ FirstFailure # NoError

\* C5 as claimed: map, pair, left, right, pred and andThen fail with exactly
\* the error text of the sub-parser that failed.
C5_Verbatim ==
    SubParserFailed =>
        /\ last.out.kind = "err"
        /\ ErrorText(last.out.error) = ErrorText(FirstFailure)

\* C5 as amended: andThen forwards the failure of its sub-parser verbatim;
\* map, pair and pred fail with `bad: ' followed by the JSON text of the
\* sub-parser's Err object, whose error text is kept in it, JSON-escaped
\* (left and right, being map over pair, wrap the text twice).
C5_Wrapped ==
    SubParserFailed =>
        /\ last.out.kind = "err"
        /\ last.parser.op = "andThen" =>
              /\ last.out.error = FirstFailure
              /\ last.out.error.wraps <= 3 =>
                    ErrorText(last.out.error) = ErrorText(FirstFailure)
        /\ last.parser.op \in {"map", "pair", "pred"} =>
              /\ last.out.error = BadError(FirstFailure)
              /\ last.out.error.wraps <= 3 =>
                    ErrorText(last.out.error) = BadText(ErrorText(FirstFailure))

\* left fails on a failure of its second parser whose message holds a quote.
C5_Witness ==
    /\ SubParserFailed
    /\ last.parser.op = "map"
    /\ last.parser.parser.op = "pair"
    /\ last.out.error.wraps = 2
    /\ \E i \in 1..Len(last.out.error.msg) : last.out.error.msg[i] = "\""

----------------------------------------------------------------------------
(* C6 *)

\* C6: whenever a parser succeeds, its remaining cursor is a suffix of its
\* input, so no longer than it: for the primitive parsers, the grammar's
\* parsers, and the combinators applied to them.
C6_CursorIsSuffix ==
    Done /\ last.out.kind = "ok" =>
        /\ IsSuffix(last.out.nextInput, text)
        /\ Len(last.out.nextInput) <= Len(text)

\* matchLiteral succeeds having consumed a part of the input, not all of it.
C6_Witness ==
    /\ Done
    /\ last.parser.op = "matchLiteral"
    /\ last.out.kind = "ok"
    /\ 0 < Len(last.out.nextInput)
    /\ Len(last.out.nextInput) < Len(text)

----------------------------------------------------------------------------
(* C7 *)

\* The bodies of the repetition loops of the grammar: of space0 and space1,
\* of attributes, and of the children of parentElement.
LoopBodies == {whitespaceChar, right(space1, attributePair), element}

\* C7: element()(s) terminates with a success or a failure, and so does
\* every parser of the grammar: no repetition loop runs forever, because
\* each successful iteration of a loop's body consumes at least one character.
C7_Terminates ==
    Done =>
        /\ last.out.kind \in {"ok", "err"}
        /\ \A body \in LoopBodies :
              LET o == Alone(body) IN
              /\ o.kind \in {"ok", "err"}
              /\ o.kind = "ok" => Len(o.nextInput) < Len(text)

\* element() has returned an element after the loop over children has run
\* twice and the loops over whitespace have run.
C7_Witness ==
    /\ ElementCalled
    /\ last.out.kind = "ok"
    /\ Len(heap[last.out.result].children) >= 2
    /\ \E i \in 1..Len(text) : IsSpaceChar(text[i])

----------------------------------------------------------------------------
(* C8 *)

Returned(i) == returned[i].kind = "ok"

\* The objects that hold the element n among their children, each with the
\* position it holds it at.
Holders(n) ==
    {<<m, k>> \in (1..Len(heap)) \X (1..Len(heap)) :
        k <= Len(heap[m].children) /\ heap[m].children[k] = n}

\* C8: invocations of element() are independent.  Every node of a returned
\* tree was created during its invocation; no node is shared between two
\* returned trees or held twice by parents; children are assigned at most
\* once to a node, before it is returned; no invocation changes an object
\* an earlier invocation created; and an invocation returns what it returns
\* when it is the first.
C8_Independent ==
    /\ \A i \in 1..Len(returned) :
          LET r == returned[i] IN
          /\ r.base <= r.top /\ r.top <= Len(heap)
          /\ SubSeq(heap, r.base + 1, r.top) = r.created
          /\ Returned(i) => Nodes(heap, r.root) \subseteq (r.base + 1)..r.top
          /\ LET alone == Run(element, r.input, <<>>) IN
             /\ alone.kind = r.kind
             /\ Returned(i) =>
                   Tree(alone.heap, alone.result) = Tree(heap, r.root)
    /\ \A i \in 1..Len(returned), j \in 1..Len(returned) :
          i # j /\ Returned(i) /\ Returned(j) =>
              Nodes(heap, returned[i].root) \cap Nodes(heap, returned[j].root) = {}
    /\ \A n \in 1..Len(heap) :
          /\ heap[n].assigned <= 1
          /\ Cardinality(Holders(n)) <= 1

\* element() has returned twice on the same input, each time a tree whose
\* root was given children.
C8_Witness ==
    /\ Len(returned) >= 2
    /\ returned[1].input = returned[2].input
    /\ Returned(1) /\ Returned(2)
    /\ heap[returned[1].root].assigned = 1
    /\ heap[returned[2].root].children # <<>>

----------------------------------------------------------------------------
(* C9 *)

\* The characters the claim lets an identifier hold: A-Z, a-z and the hyphen.
IdentifierChars == {"a", "A", "k", "-"}

\* The length of the longest prefix of s made of identifier characters.
RunLength(s) ==
    CHOOSE k \in 0..Len(s) :
        /\ \A i \in 1..k : s[i] \in IdentifierChars
        /\ k < Len(s) => s[k + 1] \notin IdentifierChars

\* C9: identifier(s) succeeds with the longest prefix of s made of ASCII
\* letters and hyphens, and the cursor s without that prefix; when no leading
\* character qualifies it succeeds with '' and the cursor s.
C9_Identifier ==
    Done /\ last.parser = identifierP =>
        /\ last.out.kind = "ok"
        /\ last.out.result = SubSeq(text, 1, RunLength(text))
        /\ last.out.nextInput = SubSeq(text, RunLength(text) + 1, Len(text))
        /\ last.out.result \o last.out.nextInput = text

\* identifier stops in the middle of an input at an underscore that letters
\* follow.
C9_Witness ==
    /\ Done
    /\ last.parser = identifierP
    /\ Len(last.out.result) > 0
    /\ Len(last.out.nextInput) > 1
    /\ last.out.nextInput[1] = "_"
    /\ last.out.nextInput[2] = "a"

\* identifier succeeds with '' on an input that starts with no letter.
C9_WitnessEmpty ==
    /\ Done
    /\ last.parser = identifierP
    /\ text # <<>>
    /\ last.out.result = <<>>
    /\ last.out.nextInput = text

----------------------------------------------------------------------------
(* C10 *)

\* The opening tag at the start of the input has an empty name.
OpensWithoutName ==
    LET o == Alone(openElement) IN
    o.kind = "ok" /\ o.heap[o.result].name = <<>>

\* C10: an element with an empty name is only ever parsed in self-closing
\* form.  singleElement accepts '</>' as an element named ''; parentElement
\* fails on every input whose opening tag has an empty name; and no element
\* that was given children, having an opening and a closing tag, has the
\* empty name.
C10_EmptyNameOnlySelfClosing ==
    /\ Done /\ last.parser = singleElement /\ startsWith(text, <<"<", "/", ">">>) =>
          /\ last.out.kind = "ok"
          /\ heap[last.out.result].name = <<>>
          /\ last.out.nextInput = SubSeq(text, 4, Len(text))
    /\ Done /\ last.parser = parentElement /\ OpensWithoutName =>
          last.out.kind = "err"
    /\ Done => \A n \in 1..Len(heap) : heap[n].assigned > 0 => heap[n].name # <<>>

\* parentElement has failed on '<></>' after the loop over children took
\* '</>' as a child.
C10_Witness ==
    /\ Done
    /\ last.parser = parentElement
    /\ text = <<"<", ">", "<", "/", ">">>
    /\ last.out.kind = "err"
    /\ Len(heap) = 2
    /\ heap[2].name = <<>>

====
